---- MODULE Spec2Model ----
(***************************************************************************)
(* Slowork: the job / application / work-submission lifecycle of           *)
(* slowork/views.py over the tables of slowork/models.py.                  *)
(*                                                                         *)
(* Every view is a request served by a worker process.  A request first    *)
(* loads its row (get_object_or_404 and the checks that follow it), then    *)
(* writes.  Statements outside transaction.atomic() are autocommitted one   *)
(* by one, so another worker's statements may run between the load and the  *)
(* write and between two writes; a transaction.atomic() block is one step.  *)
(* The Notification insert that ends a handler touches no row another       *)
(* handler reads, so it is taken together with the handler's last write,    *)
(* and the rows a step inserts are shown by `notified`.  The Notification   *)
(* table itself is kept where its rows are read: by the notification views, *)
(* beside notify_users, which inserts through the same create_notification. *)
(* Requests in flight form a bag: which worker serves which is immaterial.  *)
(***************************************************************************)
EXTENDS Integers, Sequences, FiniteSets, Bags, TLC

\* ---------------------------------------------------------------- bounds
\* WorkSubmission rows created in a run served by one worker, and in a run
\* served by several.
MaxSubs == 2
MaxConcurrentSubs == 1

\* Review rows created in a run.
MaxReviews == 2

\* Review rows naming one user as reviewee.
MaxReceived == 40

\* Notification rows in the table, and users in one notify_users call.
MaxNotifications == 3
MaxRecipients == 3

\* ------------------------------------------------------------ the actors
Workers == {"w1", "w2"}
Employers == {"e1", "e2"}
Freelancers == {"f1", "f2"}
Users == Employers \cup Freelancers
Jobs == {"j1"}

\* Job.employer: the job is posted by e1; e2 is an employer who owns no job.
Employer(j) == "e1"

\* User.role
Role(u) == IF u \in Employers THEN "employer" ELSE "freelancer"

\* ------------------------------------------------------------ the tables
\* An Application row is identified by its (job, freelancer) pair, which
\* Application.Meta.unique_together makes unique.
NoApp == <<>>
AppJob(a) == a[1]
AppFreelancer(a) == a[2]

STATUS_OPEN == "open"
STATUS_ASSIGNED == "assigned"
STATUS_IN_PROGRESS == "in_progress"
STATUS_SUBMITTED == "submitted"
STATUS_COMPLETED == "completed"
STATUS_CANCELLED == "cancelled"
JobStatuses ==
    {STATUS_OPEN, STATUS_ASSIGNED, STATUS_IN_PROGRESS, STATUS_SUBMITTED,
     STATUS_COMPLETED, STATUS_CANCELLED}

STATUS_PENDING == "pending"
STATUS_ACCEPTED == "accepted"
STATUS_REJECTED == "rejected"
NoRow == "absent"
AppStatuses == {STATUS_PENDING, STATUS_ACCEPTED, STATUS_REJECTED}

STATUS_DRAFT == "draft"
STATUS_RESUBMITTED == "resubmitted"
STATUS_APPROVED == "approved"
STATUS_CHANGES_REQUESTED == "changes_requested"
SubStatuses ==
    {STATUS_DRAFT, STATUS_SUBMITTED, STATUS_RESUBMITTED, STATUS_APPROVED,
     STATUS_CHANGES_REQUESTED}

\* A Review row is identified by its (job, reviewer, reviewee) triple, which
\* the constraint unique_review_per_job_participants makes unique.  The
\* table is a function from the triples of the rows it holds to their
\* ratings.
NoReviews == <<>>
Reviewee(k) == k[3]

\* Review.rating: MinValueValidator(1), MaxValueValidator(5)
MinRating == 1
MaxRating == 5

\* The rating a request posts; 0 stands for a GET or a form without one.
RatingInputs == {0, 2, 5, 6}

\* User.rating_avg in hundredths (decimal_places=2) and User.rating_count.
NoRatings == [rating_avg |-> 0, rating_count |-> 0]

\* A Notification row: its user and is_read (pk = index in the table).
\* A row created with is_read set.
ReadNotification(user) == [user |-> user, is_read |-> TRUE]

\* Notification.objects.create(user=user, ...): is_read is left at the
\* column's default.
NewNotification(user) == [user |-> user, is_read |-> FALSE]

\* change_request_reason: text as a sequence of characters; None is the
\* empty text (no handler stores "").
None == <<>>
Reasons == {<<>>, <<" ">>, <<" ", "f", " ">>}

\* str.strip()
RECURSIVE LStrip(_)
LStrip(s) == IF s # <<>> /\ Head(s) = " " THEN LStrip(Tail(s)) ELSE s

RECURSIVE RStrip(_)
RStrip(s) ==
    IF s # <<>> /\ s[Len(s)] = " " THEN RStrip(SubSeq(s, 1, Len(s) - 1)) ELSE s

\* The text as posted.
Unstripped(s) == s

Strip(s) == RStrip(LStrip(s))

VARIABLES
    workers,       \* the worker processes of the server
    superusers,    \* the users with is_superuser
    job,           \* Job rows: [status, selected_application]
    applications,  \* Application rows: status, or NoRow when there is none
    subs,          \* WorkSubmission rows in creation order (pk = index)
    reviews,       \* Review rows: the rating of each triple that has a row
    users,         \* User rows: [rating_avg, rating_count]
    notifications, \* Notification rows in creation order (pk = index)
    inflight,      \* the requests being served, each with what it loaded
    response,      \* the response of the request that finished in this step
    notified       \* the Notification rows inserted in this step

vars ==
    <<workers, superusers, job, applications, subs, reviews, users, notifications,
      inflight, response, notified>>

\* The groups named after the roles carry the permissions the decorators ask
\* for: employers change jobs, applications and submissions, freelancers add
\* applications and submissions; every user adds reviews and views and
\* changes notifications.  A superuser has every permission.
HasPerm(u, perm) ==
    \/ u \in superusers
    \/ IF perm \in {"change_application", "change_job", "change_worksubmission"}
       THEN Role(u) = "employer"
       ELSE IF perm \in {"add_application", "add_worksubmission"}
       THEN Role(u) = "freelancer"
       ELSE perm \in {"add_review", "view_notification", "change_notification"}

\* The (job, freelancer) pairs the Application table ranges over: the users
\* who hold add_application.
AppIds == DOMAIN applications

\* ---------------------------------------------------- requests, responses
\* pc is the statement the request stands before; job_status and
\* job_selected are columns of the Job row as the handler loaded it; review
\* is the triple of the Review being saved, rating its rating and stats the
\* aggregate Review.save has read; notification is the pk of the
\* Notification the handler loaded and recipients the users notify_users
\* has still to go through.
Request ==
    [pc |-> "none", user |-> "none", job |-> "none", app |-> NoApp,
     sub |-> 0, reason |-> None, job_status |-> "none", job_selected |-> NoApp,
     review |-> <<>>, rating |-> 0, stats |-> NoRatings, notification |-> 0,
     recipients |-> <<>>]

\* A response is named after the message the handler flashes, or after the
\* status it returns without one: "403" (permission_required), "404"
\* (get_object_or_404), "500" (an uncaught exception), a form page.
NoResponse == "none"

\* messages.success / messages.info / messages.error, HttpResponseForbidden.
SuccessMessages ==
    {"applied", "accepted", "completed", "submitted", "approved", "reviewed", "all_read",
     "job_updated", "job_removed"}
InfoMessages == {"already_applied", "rejected", "changes_requested", "already_reviewed"}
ErrorMessages ==
    {"own_job", "not_open", "unsupported_action", "not_accepted", "reason_required",
     "not_completed", "no_freelancer", "unknown_target"}
ForbiddenResponses ==
    {"403", "not_own_application", "only_employer", "only_freelancers", "did_not_work"}

Requests == BagToSet(inflight)
InFlight(p) == BagCardinality([r \in {x \in Requests : x.pc = p} |-> inflight[r]])

\* A worker is free to take a request.
WorkerFree == BagCardinality(inflight) < Cardinality(workers)

JobApps(apps, j) == {a \in AppIds : AppJob(a) = j /\ apps[a] # NoRow}

InitTables ==
    /\ superusers = {}
    /\ job = [j \in Jobs |-> [status |-> STATUS_OPEN, selected_application |-> NoApp]]
    /\ applications = [a \in Jobs \X Freelancers |-> NoRow]
    /\ subs = <<>>
    /\ reviews = NoReviews
    /\ users = [u \in Users |-> NoRatings]
    /\ notifications = <<>>
    /\ inflight = EmptyBag
    /\ response = NoResponse
    /\ notified = <<>>

Init == workers = {"w1"} /\ InitTables

InitConcurrent == workers = Workers /\ InitTables

\* The employer who posted the job is a superuser, and so holds
\* add_application beside the permissions of an employer.
InitSuperuser ==
    /\ workers = {"w1"}
    /\ superusers = {"e1"}
    /\ job = [j \in Jobs |-> [status |-> STATUS_OPEN, selected_application |-> NoApp]]
    /\ applications = [a \in Jobs \X (Freelancers \cup {"e1"}) |-> NoRow]
    /\ subs = <<>>
    /\ reviews = NoReviews
    /\ users = [u \in Users |-> NoRatings]
    /\ notifications = <<>>
    /\ inflight = EmptyBag
    /\ response = NoResponse
    /\ notified = <<>>

\* A handler returns before any write: outcome o.
Refuse(o) ==
    /\ inflight' = inflight
    /\ response' = o
    /\ notified' = <<>>

\* A handler goes on to its writes as request r.
Proceed(r) ==
    /\ inflight' = inflight (+) SetToBag({r})
    /\ response' = NoResponse
    /\ notified' = <<>>

\* Request r goes on to its next statement.
Advance(r, to) ==
    /\ inflight' = (inflight (-) SetToBag({r})) (+) SetToBag({[r EXCEPT !.pc = to]})
    /\ response' = NoResponse
    /\ notified' = <<>>

\* Request r returns with outcome o.
Finish(r, o) ==
    /\ inflight' = inflight (-) SetToBag({r})
    /\ response' = o

\* create_notification(user, ...) as the last statement of the handler of
\* request r, which then answers o: the insert may raise, and nothing
\* catches it.
create_notification(r, user, o) ==
    \E raised \in BOOLEAN :
        IF raised
        THEN notified' = <<>> /\ Finish(r, "500")
        ELSE notified' = <<NewNotification(user)>> /\ Finish(r, o)

\* ------------------------------------------------------ application_create
\* What the checks before the write decide for caller u on job j.
\* application_create without its check of the job's status.
application_create_unguarded(u, j, posted) ==
    IF ~HasPerm(u, "add_application") THEN "403"
    ELSE IF Employer(j) = u THEN "own_job"
    ELSE IF applications[<<j, u>>] # NoRow THEN "already_applied"
    ELSE IF ~posted THEN "application_form"
    ELSE "proceed"

\* application_create without its check of the job's employer.
application_create_own_job_allowed(u, j, posted) ==
    IF ~HasPerm(u, "add_application") THEN "403"
    ELSE IF job[j].status # STATUS_OPEN THEN "not_open"
    ELSE IF applications[<<j, u>>] # NoRow THEN "already_applied"
    ELSE IF ~posted THEN "application_form"
    ELSE "proceed"

application_create_checks(u, j, posted) ==
    IF ~HasPerm(u, "add_application") THEN "403"
    ELSE IF Employer(j) = u THEN "own_job"
    ELSE IF job[j].status # STATUS_OPEN THEN "not_open"
    ELSE IF applications[<<j, u>>] # NoRow THEN "already_applied"
    ELSE IF ~posted THEN "application_form"
    ELSE "proceed"

application_create(u, j, posted) ==
    /\ WorkerFree
    /\ IF application_create_checks(u, j, posted) = "proceed"
       THEN Proceed([Request EXCEPT !.pc = "apply_save", !.user = u, !.job = j,
                                    !.app = <<j, u>>])
       ELSE Refuse(application_create_checks(u, j, posted))
    /\ UNCHANGED <<workers, superusers, notifications, reviews, users, job, applications, subs>>

\* The insert with the status the accept transaction gives.
AppliedAsAccepted(apps, a) == [apps EXCEPT ![a] = STATUS_ACCEPTED]

\* The Application rows after application.save() has inserted a (status is
\* left at the column's default).
AppliedApplications(apps, a) == [apps EXCEPT ![a] = STATUS_PENDING]

application_create_save(r) ==
    /\ r.pc = "apply_save"
    /\ IF applications[r.app] # NoRow
       THEN \* unique_together: the INSERT raises IntegrityError
            /\ UNCHANGED applications
            /\ notified' = <<>>
            /\ Finish(r, "500")
       ELSE /\ applications' = AppliedApplications(applications, r.app)
            /\ create_notification(r, Employer(r.job), "applied")
    /\ UNCHANGED <<workers, superusers, notifications, reviews, users, job, subs>>

\* ----------------------------------------------- application_update_status
ApplicationActions == {"accept", "reject", "unsupported"}

\* application_update_status loading the application without the
\* job__employer=request.user filter.
application_update_status_unfiltered(u, a, action) ==
    IF ~HasPerm(u, "change_application") THEN "403"
    ELSE IF applications[a] = NoRow THEN "404"
    ELSE IF action \in {"accept", "reject"} THEN "proceed"
    ELSE "unsupported_action"

application_update_status_checks(u, a, action) ==
    IF ~HasPerm(u, "change_application") THEN "403"
    ELSE IF applications[a] = NoRow \/ Employer(AppJob(a)) # u THEN "404"
    ELSE IF action \in {"accept", "reject"} THEN "proceed"
    ELSE "unsupported_action"

application_update_status(u, a, action) ==
    /\ WorkerFree
    /\ IF application_update_status_checks(u, a, action) = "proceed"
       THEN Proceed([Request EXCEPT
                        !.pc = IF action = "accept" THEN "accept_tx" ELSE "reject_save",
                        !.user = u, !.job = AppJob(a), !.app = a,
                        !.job_status = IF action = "accept"
                                       THEN job[AppJob(a)].status ELSE "none"])
       ELSE Refuse(application_update_status_checks(u, a, action))
    /\ UNCHANGED <<workers, superusers, notifications, reviews, users, job, applications, subs>>

\* The accept transaction without the sibling update.
AcceptedOnly(apps, a) == [apps EXCEPT ![a] = STATUS_ACCEPTED]

\* The Application rows after the accept transaction on a: a accepted and
\* every other application of its job rejected.
AcceptedApplications(apps, a) ==
    [x \in AppIds |->
        IF x = a THEN STATUS_ACCEPTED
        ELSE IF AppJob(x) = AppJob(a) /\ apps[x] # NoRow THEN STATUS_REJECTED
        ELSE apps[x]]

\* The accept transaction saving the job's status alone.
AssignedJobUnselected(row, a) == [row EXCEPT !.status = STATUS_ASSIGNED]

\* The Job row after the accept transaction on a.
AssignedJob(row, a) ==
    [row EXCEPT !.status = STATUS_ASSIGNED, !.selected_application = a]

accept_transaction(r) ==
    /\ r.pc = "accept_tx"
    /\ applications' = AcceptedApplications(applications, r.app)
    /\ job' = [job EXCEPT ![r.job] = AssignedJob(job[r.job], r.app)]
    /\ create_notification(r, AppFreelancer(r.app), "accepted")
    /\ UNCHANGED <<workers, superusers, notifications, reviews, users, subs>>

\* A reject that rejects every application of the job.
RejectedWithSiblings(apps, a) ==
    [x \in AppIds |->
        IF AppJob(x) = AppJob(a) /\ apps[x] # NoRow THEN STATUS_REJECTED ELSE apps[x]]

\* The Application rows after reject's save of a.
RejectedApplications(apps, a) == [apps EXCEPT ![a] = STATUS_REJECTED]

reject_save(r) ==
    /\ r.pc = "reject_save"
    /\ applications' = RejectedApplications(applications, r.app)
    /\ create_notification(r, AppFreelancer(r.app), "rejected")
    /\ UNCHANGED <<workers, superusers, notifications, reviews, users, job, subs>>

\* ------------------------------------------------------ job_mark_completed
\* job_mark_completed finding only jobs that have a selected application.
job_mark_completed_needs_selected(u, j) ==
    IF ~HasPerm(u, "change_job") THEN "403"
    ELSE IF Employer(j) # u \/ job[j].selected_application = NoApp THEN "404"
    ELSE "proceed"

job_mark_completed_checks(u, j) ==
    IF ~HasPerm(u, "change_job") THEN "403"
    ELSE IF Employer(j) # u THEN "404"
    ELSE "proceed"

job_mark_completed(u, j) ==
    /\ WorkerFree
    /\ IF job_mark_completed_checks(u, j) = "proceed"
       THEN Proceed([Request EXCEPT !.pc = "complete_save", !.user = u, !.job = j,
                                    !.job_selected = job[j].selected_application])
       ELSE Refuse(job_mark_completed_checks(u, j))
    /\ UNCHANGED <<workers, superusers, notifications, reviews, users, job, applications, subs>>

\* The Job row after job.save(update_fields=["status", "updated_at"]).
CompletedJob(row) == [row EXCEPT !.status = STATUS_COMPLETED]

\* The notification goes to the freelancer of the selected application the
\* loaded row names.
job_mark_completed_save(r) ==
    /\ r.pc = "complete_save"
    /\ job' = [job EXCEPT ![r.job] = CompletedJob(job[r.job])]
    /\ IF r.job_selected # NoApp
       THEN create_notification(r, AppFreelancer(r.job_selected), "completed")
       ELSE notified' = <<>> /\ Finish(r, "completed")
    /\ UNCHANGED <<workers, superusers, notifications, reviews, users, applications, subs>>

\* --------------------------------------------------------------- job_update
\* There is no check of the owner: get_object_or_404(Job, pk=pk).  posted
\* stands for a POST with a valid JobForm.
job_update_checks(u, j, posted) ==
    IF ~HasPerm(u, "change_job") THEN "403"
    ELSE IF ~posted THEN "job_form"
    ELSE "proceed"

job_update(u, j, posted) ==
    /\ WorkerFree
    /\ IF job_update_checks(u, j, posted) = "proceed"
       THEN Proceed([Request EXCEPT !.pc = "job_update_save", !.user = u, !.job = j,
                                    !.job_status = job[j].status,
                                    !.job_selected = job[j].selected_application])
       ELSE Refuse(job_update_checks(u, j, posted))
    /\ UNCHANGED <<workers, superusers, notifications, reviews, users, job, applications, subs>>

\* The Job row as request r loaded it.
LoadedJob(r) == [status |-> r.job_status, selected_application |-> r.job_selected]

\* form.save() is instance.save() without update_fields: every column is
\* written, status and selected_application with the values loaded.
job_update_save(r) ==
    /\ r.pc = "job_update_save"
    /\ job' = [job EXCEPT ![r.job] = LoadedJob(r)]
    /\ notified' = <<>>
    /\ Finish(r, "job_updated")
    /\ UNCHANGED <<workers, superusers, notifications, reviews, users, applications, subs>>

\* --------------------------------------------------------------- job_delete
\* The Job row of a job that has been deleted.
NoJob == [status |-> NoRow, selected_application |-> NoApp]

ExistingJobs == {j \in Jobs : job[j] # NoJob}

\* There is no check of the owner: get_object_or_404(Job, pk=pk).  A GET
\* is answered with the confirmation page.
job_delete_checks(u, j, posted) ==
    IF ~HasPerm(u, "delete_job") THEN "403"
    ELSE IF ~posted THEN "job_confirm_delete"
    ELSE "proceed"

job_delete(u, j, posted) ==
    /\ WorkerFree
    /\ IF job_delete_checks(u, j, posted) = "proceed"
       THEN Proceed([Request EXCEPT !.pc = "job_delete", !.user = u, !.job = j])
       ELSE Refuse(job_delete_checks(u, j, posted))
    /\ UNCHANGED <<workers, superusers, notifications, reviews, users, job, applications, subs>>

\* The rows whose foreign key to job j has on_delete=CASCADE go with it:
\* its Applications, its WorkSubmissions and its Reviews.
DeletedApplications(apps, j) ==
    [a \in DOMAIN apps |-> IF AppJob(a) = j THEN NoRow ELSE apps[a]]

DeletedSubmissions(ss, j) == SelectSeq(ss, LAMBDA row : AppJob(row.application) # j)

DeletedReviews(revs, j) ==
    IF \A k \in DOMAIN revs : k[1] = j THEN NoReviews
    ELSE [k \in {x \in DOMAIN revs : x[1] # j} |-> revs[k]]

\* job.delete() collects and deletes the rows in one transaction; no
\* Review.save runs and no receiver is connected to a delete, so the User
\* rows are not written.
job_delete_cascade(r) ==
    /\ r.pc = "job_delete"
    /\ job' = [job EXCEPT ![r.job] = NoJob]
    /\ applications' = DeletedApplications(applications, r.job)
    /\ subs' = DeletedSubmissions(subs, r.job)
    /\ reviews' = DeletedReviews(reviews, r.job)
    /\ notified' = <<>>
    /\ Finish(r, "job_removed")
    /\ UNCHANGED <<workers, superusers, notifications, users>>

\* The handlers that load a Job by its pk, by the permission their
\* decorator asks for.
JobPermissions == {"add_application", "change_job", "add_review", "delete_job"}

\* get_object_or_404(Job, ...) for a job that has been deleted.
job_not_found(u, j, perm) ==
    /\ WorkerFree
    /\ j \notin ExistingJobs
    /\ Refuse(IF HasPerm(u, perm) THEN "404" ELSE "403")
    /\ UNCHANGED <<workers, superusers, notifications, reviews, users, job, applications, subs>>

\* -------------------------------------------------- work_submission_create
SubsCap == IF Cardinality(workers) > 1 THEN MaxConcurrentSubs ELSE MaxSubs

\* work_submission_create without its status check.
work_submission_create_unchecked(u, a, posted) ==
    IF ~HasPerm(u, "add_worksubmission") THEN "403"
    ELSE IF applications[a] = NoRow THEN "404"
    ELSE IF AppFreelancer(a) # u THEN "not_own_application"
    ELSE IF ~posted THEN "submission_form"
    ELSE "proceed"

work_submission_create_checks(u, a, posted) ==
    IF ~HasPerm(u, "add_worksubmission") THEN "403"
    ELSE IF applications[a] = NoRow THEN "404"
    ELSE IF AppFreelancer(a) # u THEN "not_own_application"
    ELSE IF applications[a] # STATUS_ACCEPTED THEN "not_accepted"
    ELSE IF ~posted THEN "submission_form"
    ELSE "proceed"

work_submission_create(u, a, posted) ==
    /\ WorkerFree
    /\ Len(subs) + InFlight("submit_tx") < SubsCap
    /\ IF work_submission_create_checks(u, a, posted) = "proceed"
       THEN Proceed([Request EXCEPT !.pc = "submit_tx", !.user = u,
                                    !.job = AppJob(a), !.app = a])
       ELSE Refuse(work_submission_create_checks(u, a, posted))
    /\ UNCHANGED <<workers, superusers, notifications, reviews, users, job, applications, subs>>

\* The lookup over the submissions of every application.
HasChangesRequestedAnywhere(ss, a) ==
    \E i \in 1..Len(ss) : ss[i].status = STATUS_CHANGES_REQUESTED

\* application.submissions.filter(status=STATUS_CHANGES_REQUESTED).exists()
HasChangesRequested(ss, a) ==
    \E i \in 1..Len(ss) :
        ss[i].application = a /\ ss[i].status = STATUS_CHANGES_REQUESTED

\* The WorkSubmission row the submit transaction inserts.
NewSubmission(ss, a) ==
    [application |-> a,
     status |-> IF HasChangesRequested(ss, a)
                THEN STATUS_RESUBMITTED ELSE STATUS_SUBMITTED,
     change_request_reason |-> None]

\* The submit transaction leaving the job's status as it was.
SubmittedJobUnsaved(row) == row

\* The submit transaction saving the job without a selected application.
SubmittedJobUnselected(row) ==
    [row EXCEPT !.status = STATUS_SUBMITTED, !.selected_application = NoApp]

\* The Job row after the submit transaction.
SubmittedJob(row) == [row EXCEPT !.status = STATUS_SUBMITTED]

work_submission_create_transaction(r) ==
    /\ r.pc = "submit_tx"
    /\ subs' = Append(subs, NewSubmission(subs, r.app))
    /\ job' = [job EXCEPT ![r.job] = SubmittedJob(job[r.job])]
    /\ create_notification(r, Employer(r.job), "submitted")
    /\ UNCHANGED <<workers, superusers, notifications, reviews, users, applications>>

\* ------------------------------------------- work_submission_update_status
SubmissionActions == {"approve", "request_changes", "unsupported"}

\* request.POST["change_reason"] is read by request_changes alone.
ReasonsFor(action) == IF action = "request_changes" THEN Reasons ELSE {None}

\* WorkSubmission.job and WorkSubmission.submitted_by are set from the
\* application at creation.
SubJob(ss, i) == AppJob(ss[i].application)
SubmittedBy(ss, i) == AppFreelancer(ss[i].application)

work_submission_update_status_checks(u, i, action, text) ==
    IF ~HasPerm(u, "change_worksubmission") THEN "403"
    ELSE IF i > Len(subs) \/ Employer(SubJob(subs, i)) # u THEN "404"
    ELSE IF action = "approve" THEN "proceed"
    ELSE IF action = "request_changes"
    THEN IF Strip(text) = <<>> THEN "reason_required" ELSE "proceed"
    ELSE "unsupported_action"

work_submission_update_status(u, i, action, text) ==
    /\ WorkerFree
    /\ IF work_submission_update_status_checks(u, i, action, text) = "proceed"
       THEN Proceed([Request EXCEPT
                        !.pc = IF action = "approve"
                               THEN "approve_submission" ELSE "changes_submission",
                        !.user = u, !.job = SubJob(subs, i),
                        !.app = subs[i].application, !.sub = i,
                        !.reason = IF action = "approve" THEN None ELSE Strip(text)])
       ELSE Refuse(work_submission_update_status_checks(u, i, action, text))
    /\ UNCHANGED <<workers, superusers, notifications, reviews, users, job, applications, subs>>

\* approve's save of the status alone.
ApprovedKeepingReason(row) == [row EXCEPT !.status = STATUS_APPROVED]

\* The WorkSubmission row after approve's save of it.
ApprovedSubmission(row) ==
    [row EXCEPT !.status = STATUS_APPROVED, !.change_request_reason = None]

approve_save_submission(r) ==
    /\ r.pc = "approve_submission"
    /\ subs' = [subs EXCEPT ![r.sub] = ApprovedSubmission(subs[r.sub])]
    /\ Advance(r, "approve_job")
    /\ UNCHANGED <<workers, superusers, notifications, reviews, users, job, applications>>

approve_save_job(r) ==
    /\ r.pc = "approve_job"
    /\ job' = [job EXCEPT ![r.job] = CompletedJob(job[r.job])]
    /\ create_notification(r, AppFreelancer(r.app), "approved")
    /\ UNCHANGED <<workers, superusers, notifications, reviews, users, applications, subs>>

\* request_changes' save of the status alone.
ChangesRequestedWithoutReason(row, reason) ==
    [row EXCEPT !.status = STATUS_CHANGES_REQUESTED]

\* The WorkSubmission row after request_changes' save of it.
ChangesRequestedSubmission(row, reason) ==
    [row EXCEPT !.status = STATUS_CHANGES_REQUESTED,
                !.change_request_reason = reason]

\* The Job row after request_changes' save of it.
InProgressJob(row) == [row EXCEPT !.status = STATUS_IN_PROGRESS]

request_changes_save_submission(r) ==
    /\ r.pc = "changes_submission"
    /\ subs' = [subs EXCEPT ![r.sub] = ChangesRequestedSubmission(subs[r.sub], r.reason)]
    /\ Advance(r, "changes_job")
    /\ UNCHANGED <<workers, superusers, notifications, reviews, users, job, applications>>

request_changes_save_job(r) ==
    /\ r.pc = "changes_job"
    /\ job' = [job EXCEPT ![r.job] = InProgressJob(job[r.job])]
    /\ create_notification(r, AppFreelancer(r.app), "changes_requested")
    /\ UNCHANGED <<workers, superusers, notifications, reviews, users, applications, subs>>

\* ------------------------------------------------------------ review_create
ReviewTargets == {"freelancer", "employer", "other"}

\* review_create without the existing-review lookup.
review_create_form_unchecked(u, j, reviewee, rating) ==
    IF rating \notin MinRating..MaxRating THEN "review_form" ELSE "proceed"

\* The statements after the reviewee is known: the existing-review lookup
\* and the form (ReviewForm takes a rating of MinRating..MaxRating).
review_create_form(u, j, reviewee, rating) ==
    IF <<j, u, reviewee>> \in DOMAIN reviews THEN "already_reviewed"
    ELSE IF rating \notin MinRating..MaxRating THEN "review_form"
    ELSE "proceed"

\* review_create without its check of the job's status.
review_create_any_status(u, j, target, rating) ==
    IF ~HasPerm(u, "add_review") THEN "403"
    ELSE IF target = "freelancer"
    THEN IF Employer(j) # u THEN "only_employer"
         ELSE IF job[j].selected_application = NoApp THEN "no_freelancer"
         ELSE review_create_form(u, j, AppFreelancer(job[j].selected_application), rating)
    ELSE IF target = "employer"
    THEN IF Role(u) # "freelancer" THEN "only_freelancers"
         ELSE IF \/ job[j].selected_application = NoApp
                 \/ AppFreelancer(job[j].selected_application) # u
         THEN "did_not_work"
         ELSE review_create_form(u, j, Employer(j), rating)
    ELSE "unknown_target"

review_create_checks(u, j, target, rating) ==
    IF ~HasPerm(u, "add_review") THEN "403"
    ELSE IF job[j].status # STATUS_COMPLETED THEN "not_completed"
    ELSE IF target = "freelancer"
    THEN IF Employer(j) # u THEN "only_employer"
         ELSE IF job[j].selected_application = NoApp THEN "no_freelancer"
         ELSE review_create_form(u, j, AppFreelancer(job[j].selected_application), rating)
    ELSE IF target = "employer"
    THEN IF Role(u) # "freelancer" THEN "only_freelancers"
         ELSE IF \/ job[j].selected_application = NoApp
                 \/ AppFreelancer(job[j].selected_application) # u
         THEN "did_not_work"
         ELSE review_create_form(u, j, Employer(j), rating)
    ELSE "unknown_target"

\* A review that names a freelancer the job has not selected.
ReviewTripleUnselected(u, j, target) ==
    <<j, u, CHOOSE v \in Freelancers :
                v # u /\ v # AppFreelancer(job[j].selected_application)>>

\* reviewee, for a caller and target that passed the checks.
ReviewTriple(u, j, target) ==
    IF target = "freelancer"
    THEN <<j, u, AppFreelancer(job[j].selected_application)>>
    ELSE <<j, u, Employer(j)>>

ReviewRows(revs) == DOMAIN revs

review_create(u, j, target, rating) ==
    /\ WorkerFree
    /\ IF review_create_checks(u, j, target, rating) = "proceed"
       THEN /\ Cardinality(ReviewRows(reviews)) + InFlight("review_insert") < MaxReviews
            /\ Proceed([Request EXCEPT !.pc = "review_insert", !.user = u, !.job = j,
                                       !.review = ReviewTriple(u, j, target),
                                       !.rating = rating])
       ELSE Refuse(review_create_checks(u, j, target, rating))
    /\ UNCHANGED <<workers, superusers, notifications, job, applications, subs, reviews, users>>

\* Review.save: super().save() inserts the row.
review_save_insert(r) ==
    /\ r.pc = "review_insert"
    /\ IF r.review \in DOMAIN reviews
       THEN \* unique_review_per_job_participants: IntegrityError
            /\ UNCHANGED reviews
            /\ notified' = <<>>
            /\ Finish(r, "500")
       ELSE /\ reviews' = reviews @@ (r.review :> r.rating)
            /\ Advance(r, "review_aggregate")
    /\ UNCHANGED <<workers, superusers, notifications, job, applications, subs, users>>

\* The reviews a user has received.
ReviewsReceived(revs, u) == {k \in ReviewRows(revs) : Reviewee(k) = u}

RECURSIVE SumRatings(_, _)
SumRatings(revs, ks) ==
    IF ks = {} THEN 0
    ELSE LET k == CHOOSE x \in ks : TRUE
         IN  revs[k] + SumRatings(revs, ks \ {k})

\* n / d to the nearest integer, a half going up (n >= 0, d > 0).
RoundHalfUp(n, d) == (2 * n + d) \div (2 * d)

\* The bits of a positive integer.
RECURSIVE BitLength(_)
BitLength(m) == IF m < 2 THEN 1 ELSE 1 + BitLength(m \div 2)

\* Avg("rating") over an integer column comes back as a Python float: the
\* double nearest to sum / count, ties to even.  The long division of the
\* remainder rem by count, `bits` bits of the significand still to come and
\* `odd` the last bit produced, tells on which side of sum / count that
\* double lies: -1 below, 0 exact, 1 above.
RECURSIVE FloatSide(_, _, _, _)
FloatSide(rem, count, bits, odd) ==
    IF rem = 0 THEN 0
    ELSE IF bits = 0
    THEN IF 2 * rem > count \/ (2 * rem = count /\ odd) THEN 1 ELSE -1
    ELSE FloatSide((2 * rem) % count, count, bits - 1, (2 * rem) \div count = 1)

\* The side of the float for sum / count >= 1: a double has 53 significant
\* bits, those of the integer part included.
AvgSide(sum, count) ==
    FloatSide(sum % count, count, 53 - BitLength(sum \div count),
              (sum \div count) % 2 = 1)

\* sum / count lies exactly half-way between two hundredths.
HalfWay(sum, count) == (200 * sum + count) % (2 * count) = 0

\* Decimal(avg).quantize(Decimal("0.01"), rounding=ROUND_HALF_UP), in
\* hundredths.  Decimal(avg) is the exact value of the float, within 2^-50
\* of sum / count, and a mean that is not half-way is at least
\* 1 / (200 * count) from being so; hence the float rounds as the mean does
\* unless the mean is half-way and the float lies below it.
Quantize(sum, count) ==
    IF HalfWay(sum, count) /\ AvgSide(sum, count) < 0
    THEN RoundHalfUp(100 * sum, count) - 1
    ELSE RoundHalfUp(100 * sum, count)

\* aggregate(avg=Avg("rating"), count=Count("id")) and the quantize to two
\* places, as the columns the user row will get.
ReviewStats(revs, u) ==
    IF ReviewsReceived(revs, u) = {} THEN NoRatings
    ELSE [rating_avg |-> Quantize(SumRatings(revs, ReviewsReceived(revs, u)),
                                  Cardinality(ReviewsReceived(revs, u))),
          rating_count |-> Cardinality(ReviewsReceived(revs, u))]

\* Review.save: the aggregate query over the reviewee's reviews.  (The
\* post_save receiver of signals.py, where it is connected, runs the same
\* query and save once more inside super().save(); the columns written last
\* are those of this query.)
review_save_aggregate(r) ==
    /\ r.pc = "review_aggregate"
    /\ inflight' = (inflight (-) SetToBag({r}))
                   (+) SetToBag({[r EXCEPT !.pc = "review_user_save",
                                           !.stats = ReviewStats(reviews, Reviewee(r.review))]})
    /\ response' = NoResponse
    /\ notified' = <<>>
    /\ UNCHANGED <<workers, superusers, notifications, job, applications, subs, reviews, users>>

\* Review.save: user.save(update_fields=["rating_avg", "rating_count", ...]),
\* then the handler's create_notification.
review_save_user(r) ==
    /\ r.pc = "review_user_save"
    /\ users' = [users EXCEPT ![Reviewee(r.review)] = r.stats]
    /\ create_notification(r, Reviewee(r.review), "reviewed")
    /\ UNCHANGED <<workers, superusers, notifications, job, applications, subs, reviews>>

\* --------------------------------------------------------- the aggregator
\* The reviews f1 has received from e1 on `count` earlier jobs (jobs are
\* numbered here), every one with the same rating, and f1's row as the
\* last of them left it.
EarlierReviews(count, rating) ==
    [k \in {<<i, "e1", "f1">> : i \in 1..count} |-> rating]

RatedUsers(count, rating) ==
    [u \in Users |->
        IF u = "f1" /\ count > 0
        THEN [rating_avg |-> 100 * rating, rating_count |-> count]
        ELSE NoRatings]

\* review.save() is called for a review of f1 on one more job.
InitRating ==
    \E count \in 0..(MaxReceived - 1) :
        \E earlier \in MinRating..MaxRating, rating \in MinRating..MaxRating :
            /\ workers = {"w1"}
            /\ superusers = {}
            /\ job = [j \in Jobs |-> [status |-> STATUS_OPEN, selected_application |-> NoApp]]
            /\ applications = [a \in Jobs \X Freelancers |-> NoRow]
            /\ subs = <<>>
            /\ reviews = EarlierReviews(count, earlier)
            /\ users = RatedUsers(count, earlier)
            /\ notifications = <<>>
            /\ inflight = SetToBag({[Request EXCEPT !.pc = "review_insert", !.user = "e1",
                                                     !.review = <<count + 1, "e1", "f1">>,
                                                     !.rating = rating]})
            /\ response = NoResponse
            /\ notified = <<>>

\* ------------------------------------------------------------ notify_users
\* user is None
NoUser == "nobody"

\* The users a notify_users call is given.
Recipients == {"e1", "f1", NoUser}
RecipientLists == UNION {[1..n -> Recipients] : n \in 0..MaxRecipients}

\* The users of a list create_notification inserts a row for.
Present(us) == SelectSeq(us, LAMBDA u : u # NoUser)

\* The rows notify_users has yet to insert.
PendingNotifications == Len(notifications) + InFlight("notify")

\* services.notify_users(users, ...), which returns the rows it created
\* ("notified") unless a create_notification raises ("500").
notify_users(us) ==
    /\ WorkerFree
    /\ PendingNotifications + Len(Present(us)) <= MaxNotifications
    /\ Proceed([Request EXCEPT !.pc = "notify", !.recipients = us])
    /\ UNCHANGED <<workers, superusers, notifications, job, applications, subs, reviews, users>>

\* One turn of the loop: create_notification for the next user, which
\* returns None for no user and inserts a row otherwise; the insert may
\* raise, and neither function catches it.
notify_users_create(r) ==
    /\ r.pc = "notify"
    /\ IF r.recipients = <<>>
       THEN /\ UNCHANGED notifications
            /\ notified' = <<>>
            /\ Finish(r, "notified")
       ELSE IF Head(r.recipients) = NoUser
       THEN /\ UNCHANGED notifications
            /\ inflight' = (inflight (-) SetToBag({r}))
                           (+) SetToBag({[r EXCEPT !.recipients = Tail(r.recipients)]})
            /\ response' = NoResponse
            /\ notified' = <<>>
       ELSE \E raised \in BOOLEAN :
               IF raised
               THEN /\ UNCHANGED notifications
                    /\ notified' = <<>>
                    /\ Finish(r, "500")
               ELSE /\ notifications' =
                          Append(notifications, NewNotification(Head(r.recipients)))
                    /\ inflight' = (inflight (-) SetToBag({r}))
                                   (+) SetToBag({[r EXCEPT !.recipients = Tail(r.recipients)]})
                    /\ response' = NoResponse
                    /\ notified' = <<NewNotification(Head(r.recipients))>>
    /\ UNCHANGED <<workers, superusers, job, applications, subs, reviews, users>>

\* -------------------------------------------------- notification_mark_read
\* notification_mark_read loading the notification without the
\* user=request.user filter.
notification_mark_read_unfiltered(u, pk) ==
    IF ~HasPerm(u, "change_notification") THEN "403"
    ELSE IF pk > Len(notifications) THEN "404"
    ELSE "proceed"

notification_mark_read_checks(u, pk) ==
    IF ~HasPerm(u, "change_notification") THEN "403"
    ELSE IF pk > Len(notifications) \/ notifications[pk].user # u THEN "404"
    ELSE "proceed"

notification_mark_read(u, pk) ==
    /\ WorkerFree
    /\ IF notification_mark_read_checks(u, pk) = "proceed"
       THEN Proceed([Request EXCEPT !.pc = "mark_read_save", !.user = u,
                                    !.notification = pk])
       ELSE Refuse(notification_mark_read_checks(u, pk))
    /\ UNCHANGED <<workers, superusers, notifications, job, applications, subs, reviews, users>>

\* The Notification rows after notification.save(update_fields=["is_read"]).
MarkedRead(ns, pk) == [ns EXCEPT ![pk].is_read = TRUE]

\* The handler redirects without a message.
notification_mark_read_save(r) ==
    /\ r.pc = "mark_read_save"
    /\ notifications' = MarkedRead(notifications, r.notification)
    /\ notified' = <<>>
    /\ Finish(r, "marked_read")
    /\ UNCHANGED <<workers, superusers, job, applications, subs, reviews, users>>

\* -------------------------------------------------------- notification_list
notification_list_checks(u, posted, mark_all_read) ==
    IF ~HasPerm(u, "view_notification") THEN "403"
    ELSE IF posted /\ mark_all_read THEN "proceed"
    ELSE "notification_list"

notification_list(u, posted, mark_all_read) ==
    /\ WorkerFree
    /\ IF notification_list_checks(u, posted, mark_all_read) = "proceed"
       THEN Proceed([Request EXCEPT !.pc = "mark_all_read", !.user = u])
       ELSE Refuse(notification_list_checks(u, posted, mark_all_read))
    /\ UNCHANGED <<workers, superusers, notifications, job, applications, subs, reviews, users>>

\* The Notification rows after
\* user.notifications.filter(is_read=False).update(is_read=True).
AllMarkedRead(ns, u) ==
    [i \in 1..Len(ns) |-> IF ns[i].user = u THEN [ns[i] EXCEPT !.is_read = TRUE] ELSE ns[i]]

notification_list_update(r) ==
    /\ r.pc = "mark_all_read"
    /\ notifications' = AllMarkedRead(notifications, r.user)
    /\ notified' = <<>>
    /\ Finish(r, "all_read")
    /\ UNCHANGED <<workers, superusers, job, applications, subs, reviews, users>>

\* --------------------------------------------------------------- the server
Next ==
    \/ \E u \in Users, j \in Jobs, posted \in BOOLEAN : application_create(u, j, posted)
    \/ \E r \in Requests : application_create_save(r)
    \/ \E u \in Users, a \in AppIds, action \in ApplicationActions :
           application_update_status(u, a, action)
    \/ \E r \in Requests : accept_transaction(r)
    \/ \E r \in Requests : reject_save(r)
    \/ \E u \in Users, j \in Jobs : job_mark_completed(u, j)
    \/ \E r \in Requests : job_mark_completed_save(r)
    \/ \E u \in Users, a \in AppIds, posted \in BOOLEAN : work_submission_create(u, a, posted)
    \/ \E r \in Requests : work_submission_create_transaction(r)
    \/ \E u \in Users, i \in 1..SubsCap, action \in SubmissionActions :
           \E text \in ReasonsFor(action) : work_submission_update_status(u, i, action, text)
    \/ \E r \in Requests : approve_save_submission(r)
    \/ \E r \in Requests : approve_save_job(r)
    \/ \E r \in Requests : request_changes_save_submission(r)
    \/ \E r \in Requests : request_changes_save_job(r)

\* Requests served one at a time.
Spec == Init /\ [][Next]_vars

\* Requests served by two workers at once.
SpecConcurrent == InitConcurrent /\ [][Next]_vars

\* The review workflow.  review_create reads the Job row alone (its status,
\* its employer, its selected application's freelancer) and the lifecycle
\* handlers read neither Review rows nor the rating columns, so the workflow
\* runs beside the handlers that bring the Job row to every value of those
\* columns: apply, accept / reject and mark-completed.
NextReview ==
    \/ \E u \in Users, j \in Jobs, posted \in BOOLEAN : application_create(u, j, posted)
    \/ \E r \in Requests : application_create_save(r)
    \/ \E u \in Users, a \in AppIds, action \in ApplicationActions :
           application_update_status(u, a, action)
    \/ \E r \in Requests : accept_transaction(r)
    \/ \E r \in Requests : reject_save(r)
    \/ \E u \in Users, j \in Jobs : job_mark_completed(u, j)
    \/ \E r \in Requests : job_mark_completed_save(r)
    \/ \E u \in Users, j \in Jobs, target \in ReviewTargets, rating \in RatingInputs :
           review_create(u, j, target, rating)
    \/ \E r \in Requests : review_save_insert(r)
    \/ \E r \in Requests : review_save_aggregate(r)
    \/ \E r \in Requests : review_save_user(r)

SpecReview == Init /\ [][NextReview]_vars

SpecReviewConcurrent == InitConcurrent /\ [][NextReview]_vars

\* The review workflow with the job's employer a superuser.
SpecSuperuser == InitSuperuser /\ [][NextReview]_vars

\* The employer's side of a job: its applications are accepted and rejected
\* and the job is marked completed while the job is being edited.
NextJobEdit ==
    \/ \E u \in Users, j \in Jobs, posted \in BOOLEAN : application_create(u, j, posted)
    \/ \E r \in Requests : application_create_save(r)
    \/ \E u \in Users, a \in AppIds, action \in ApplicationActions :
           application_update_status(u, a, action)
    \/ \E r \in Requests : accept_transaction(r)
    \/ \E r \in Requests : reject_save(r)
    \/ \E u \in Users, j \in Jobs : job_mark_completed(u, j)
    \/ \E r \in Requests : job_mark_completed_save(r)
    \/ \E u \in Users, j \in Jobs, posted \in BOOLEAN : job_update(u, j, posted)
    \/ \E r \in Requests : job_update_save(r)

SpecJobEditConcurrent == InitConcurrent /\ [][NextJobEdit]_vars

\* The lifecycle handlers together with job_update, every handler that
\* writes a Job row that stays.
NextLifecycleEdit ==
    \/ \E u \in Users, j \in Jobs, posted \in BOOLEAN : application_create(u, j, posted)
    \/ \E r \in Requests : application_create_save(r)
    \/ \E u \in Users, a \in AppIds, action \in ApplicationActions :
           application_update_status(u, a, action)
    \/ \E r \in Requests : accept_transaction(r)
    \/ \E r \in Requests : reject_save(r)
    \/ \E u \in Users, j \in Jobs : job_mark_completed(u, j)
    \/ \E r \in Requests : job_mark_completed_save(r)
    \/ \E u \in Users, j \in Jobs, posted \in BOOLEAN : job_update(u, j, posted)
    \/ \E r \in Requests : job_update_save(r)
    \/ \E u \in Users, a \in AppIds, posted \in BOOLEAN : work_submission_create(u, a, posted)
    \/ \E r \in Requests : work_submission_create_transaction(r)
    \/ \E u \in Users, i \in 1..SubsCap, action \in SubmissionActions :
           \E text \in ReasonsFor(action) : work_submission_update_status(u, i, action, text)
    \/ \E r \in Requests : approve_save_submission(r)
    \/ \E r \in Requests : approve_save_job(r)
    \/ \E r \in Requests : request_changes_save_submission(r)
    \/ \E r \in Requests : request_changes_save_job(r)

SpecLifecycleEdit == Init /\ [][NextLifecycleEdit]_vars

\* The review workflow with job_delete; the employer, a superuser, holds
\* delete_job.
NextDelete ==
    \/ \E u \in Users, j \in ExistingJobs, posted \in BOOLEAN :
           application_create(u, j, posted)
    \/ \E r \in Requests : application_create_save(r)
    \/ \E u \in Users, a \in AppIds, action \in ApplicationActions :
           application_update_status(u, a, action)
    \/ \E r \in Requests : accept_transaction(r)
    \/ \E r \in Requests : reject_save(r)
    \/ \E u \in Users, j \in ExistingJobs : job_mark_completed(u, j)
    \/ \E r \in Requests : job_mark_completed_save(r)
    \/ \E u \in Users, j \in ExistingJobs, target \in ReviewTargets, rating \in RatingInputs :
           review_create(u, j, target, rating)
    \/ \E r \in Requests : review_save_insert(r)
    \/ \E r \in Requests : review_save_aggregate(r)
    \/ \E r \in Requests : review_save_user(r)
    \/ \E u \in Users, j \in ExistingJobs, posted \in BOOLEAN : job_delete(u, j, posted)
    \/ \E r \in Requests : job_delete_cascade(r)
    \/ \E u \in Users, j \in Jobs, perm \in JobPermissions : job_not_found(u, j, perm)

SpecDelete == InitSuperuser /\ [][NextDelete]_vars

\* The rating aggregator alone: the three steps of Review.save over the
\* tables of reviews received that InitRating draws.
NextRating ==
    \/ \E r \in Requests : review_save_insert(r)
    \/ \E r \in Requests : review_save_aggregate(r)
    \/ \E r \in Requests : review_save_user(r)

SpecRating == InitRating /\ [][NextRating]_vars

\* The notifications: rows come into the table through notify_users (the
\* loop over the create_notification every handler calls) and are read and
\* written by the two notification views.
NextNotifications ==
    \/ \E us \in RecipientLists : notify_users(us)
    \/ \E r \in Requests : notify_users_create(r)
    \/ \E u \in Users, pk \in 1..MaxNotifications : notification_mark_read(u, pk)
    \/ \E r \in Requests : notification_mark_read_save(r)
    \/ \E u \in Users, posted \in BOOLEAN, mark_all_read \in BOOLEAN :
           notification_list(u, posted, mark_all_read)
    \/ \E r \in Requests : notification_list_update(r)

SpecNotifications == Init /\ [][NextNotifications]_vars

\* ================================================================ properties
Accepted(j) == {a \in JobApps(applications, j) : applications[a] = STATUS_ACCEPTED}
Pending(j) == {a \in JobApps(applications, j) : applications[a] = STATUS_PENDING}
Selected(j) == job[j].selected_application
AwaitingReview == {STATUS_SUBMITTED, STATUS_RESUBMITTED}

\* C1: in every state reached by any interleaving of the handlers, a job has
\* at most one application with status accepted.
C1_AtMostOneAccepted == \A j \in Jobs : Cardinality(Accepted(j)) <= 1

\* An accept has just committed on a job with two applications while an
\* accept of the other application is still in flight.
C1_Witness ==
    \E a, b \in AppIds :
        /\ a # b /\ AppJob(a) = AppJob(b)
        /\ response = "accepted" /\ notified = <<NewNotification(AppFreelancer(a))>>
        /\ applications[a] = STATUS_ACCEPTED /\ applications[b] = STATUS_REJECTED
        /\ \E r \in Requests : r.pc = "accept_tx" /\ r.app = b

\* C2: of two accepts in flight together on different applications of one
\* job, the one that commits second (it loaded the job open, and a sibling
\* has been accepted and selected since) fails with an error message and
\* leaves the winner accepted and selected and itself not accepted.
C2_RaceLoserFails ==
    [][\A r \in Requests :
          (/\ accept_transaction(r)
           /\ r.job_status = STATUS_OPEN
           /\ \E b \in Accepted(r.job) : b # r.app /\ Selected(r.job) = b)
          => (/\ response' \in ErrorMessages
              /\ applications' = applications
              /\ job' = job)]_vars

\* C3: an accept whose job is not open, or whose application is no longer
\* pending, fails with an error message and changes no Application and no
\* Job row; so once a job has an accepted application no other application
\* of it becomes accepted.
C3_AcceptGuarded ==
    [][/\ \A r \in Requests :
            (accept_transaction(r) /\ (job[r.job].status # STATUS_OPEN
                             \/ applications[r.app] # STATUS_PENDING))
            => (/\ response' \in ErrorMessages
                /\ applications' = applications
                /\ job' = job)
       /\ \A a, b \in AppIds :
            (a # b /\ AppJob(a) = AppJob(b) /\ applications[a] = STATUS_ACCEPTED)
            => applications'[b] # STATUS_ACCEPTED]_vars

\* C4: a job's selected_application, when set, is an application of that
\* job whose status is accepted.
C4_SelectedIsAccepted ==
    \A j \in Jobs :
        Selected(j) # NoApp
        => AppJob(Selected(j)) = j /\ applications[Selected(j)] = STATUS_ACCEPTED

\* C5: the accept transaction on application A of job J leaves A accepted,
\* every other application of J rejected, J assigned and J's
\* selected_application = A.
C5_AcceptEffect ==
    [][\A r \in Requests :
          accept_transaction(r)
          => (/\ applications'[r.app] = STATUS_ACCEPTED
              /\ \A b \in JobApps(applications', r.job) \ {r.app} :
                     applications'[b] = STATUS_REJECTED
              /\ job'[r.job].status = STATUS_ASSIGNED
              /\ job'[r.job].selected_application = r.app)]_vars

\* An accept has just committed on a job that has another application.
C5_Witness ==
    \E a, b \in AppIds :
        /\ a # b /\ AppJob(a) = AppJob(b)
        /\ response = "accepted"
        /\ Selected(AppJob(a)) = a
        /\ job[AppJob(a)].status = STATUS_ASSIGNED
        /\ applications[a] = STATUS_ACCEPTED /\ applications[b] = STATUS_REJECTED

\* C6: no state shows a job with an accepted application that is still
\* open, nor a job that is assigned while one of its applications is
\* still pending.
C6_NoPartialAccept ==
    \A j \in Jobs :
        /\ ~(Accepted(j) # {} /\ job[j].status = STATUS_OPEN)
        /\ ~(job[j].status = STATUS_ASSIGNED /\ Pending(j) # {})

\* C7: a job whose status is completed keeps that status in every later
\* step.
C7_CompletedIsTerminal ==
    [][\A j \in Jobs :
          job[j].status = STATUS_COMPLETED => job'[j].status = STATUS_COMPLETED]_vars

\* C8: a job's status becomes submitted only in the submit transaction, and
\* the submit transaction runs only on a job that is assigned or
\* in_progress.
C8_SubmittedOnlyFromWork ==
    [][/\ \A j \in Jobs :
            (job[j].status # STATUS_SUBMITTED /\ job'[j].status = STATUS_SUBMITTED)
            => \E r \in Requests : r.job = j /\ work_submission_create_transaction(r)
       /\ \A r \in Requests :
            work_submission_create_transaction(r) => job[r.job].status \in {STATUS_ASSIGNED, STATUS_IN_PROGRESS}]_vars

\* C9: a submit by the application's freelancer while the application is
\* pending or rejected is answered with the "not accepted" error and adds
\* no WorkSubmission, changes no job and inserts no notification.
C9_SubmitNeedsAccepted ==
    [][\A a \in AppIds, posted \in BOOLEAN :
          (/\ applications[a] \in {STATUS_PENDING, STATUS_REJECTED}
           /\ work_submission_create(AppFreelancer(a), a, posted))
          => (/\ response' = "not_accepted"
              /\ inflight' = inflight
              /\ subs' = subs
              /\ job' = job
              /\ notified' = <<>>)]_vars

\* A submit has just been refused on the only application of a job, which
\* was accepted (it is still selected) and rejected afterwards.
C9_Witness ==
    \E a \in AppIds :
        /\ response = "not_accepted"
        /\ JobApps(applications, AppJob(a)) = {a}
        /\ applications[a] = STATUS_REJECTED
        /\ Selected(AppJob(a)) = a
        /\ subs = <<>>

\* C10: approve never writes a submission that is not awaiting review
\* (one that is approved or changes_requested): its save of the submission
\* and its save of the job do not happen then.
C10_ApproveGuarded ==
    [][\A r \in Requests :
          approve_save_submission(r) => subs[r.sub].status \in AwaitingReview]_vars

\* Nothing is written and no write is to follow.
NoEffect ==
    /\ inflight' = inflight
    /\ job' = job
    /\ applications' = applications
    /\ subs' = subs
    /\ reviews' = reviews
    /\ users' = users
    /\ notifications' = notifications
    /\ notified' = <<>>

\* A handler that returns at its checks (no request is taken up and a
\* response is given) has written no row and inserted no notification.
RefusedWithoutEffect ==
    (inflight' = inflight /\ response' # NoResponse) => NoEffect

\* C11 (as the handler behaves): an apply by the job's employer, on a job
\* that is not open, or by a freelancer who already has an application on
\* the job is turned away at the handler's checks, in every state the
\* program reaches.  The employer is refused, the closed job gets the "no
\* longer accepting" error, and the repeat on an open job gets the "already
\* applied" information, which is no failure.  A handler that returns at
\* its checks creates no Application row and no Notification and leaves
\* the Application and Job rows as they are.
C11_ApplyRefused ==
    /\ [](\A u \in Users, j \in Jobs, posted \in BOOLEAN :
            /\ Employer(j) = u
                  => application_create_checks(u, j, posted) \in {"403", "own_job"}
            /\ (u \in Freelancers /\ job[j].status # STATUS_OPEN)
                  => application_create_checks(u, j, posted) = "not_open"
            /\ (/\ u \in Freelancers
                /\ job[j].status = STATUS_OPEN
                /\ applications[<<j, u>>] # NoRow)
                  => application_create_checks(u, j, posted) = "already_applied")
    /\ [][RefusedWithoutEffect]_vars

\* A freelancer with a pending application on an open job has just applied
\* again and been told so.
C11_Witness ==
    \E j \in Jobs, u \in Freelancers :
        /\ response = "already_applied"
        /\ job[j].status = STATUS_OPEN
        /\ applications[<<j, u>>] = STATUS_PENDING
        /\ inflight = EmptyBag

\* C11 (as stated): in each of the three cases the apply fails, that is, it
\* is answered with an error or a refusal, and nothing is written.
C11_ApplyFails ==
    /\ [](\A u \in Users, j \in Jobs, posted \in BOOLEAN :
            (\/ Employer(j) = u
             \/ job[j].status # STATUS_OPEN
             \/ (u \in Freelancers /\ applications[<<j, u>>] # NoRow))
            => application_create_checks(u, j, posted)
                  \in ErrorMessages \cup ForbiddenResponses)
    /\ [][RefusedWithoutEffect]_vars

\* C12: a freelancer who already has an Application row on a job and applies
\* again, whether the handler finds the row in its check or only when it
\* inserts (two applies of the same freelancer running at once), gets the
\* "already applied" information and the row stays as it is.  (The rows are
\* keyed by (job, freelancer): unique_together lets no second row in.)
C12_SecondApplyNoOp ==
    [][/\ \A u \in Freelancers, j \in Jobs, posted \in BOOLEAN :
             (/\ applications[<<j, u>>] # NoRow
              /\ job[j].status = STATUS_OPEN
              /\ application_create(u, j, posted))
             => (response' = "already_applied" /\ inflight' = inflight)
       /\ \A r \in Requests :
             (/\ r.pc = "apply_save"
              /\ applications[r.app] # NoRow
              /\ application_create_save(r))
             => (response' = "already_applied" /\ applications' = applications)]_vars

\* C13: an apply that answers with success has inserted one pending
\* Application for the caller on the job, where there was none, has left
\* every other Application row and the Job row as they were, and has
\* inserted one Notification, for the job's employer.
C13_ApplyEffect ==
    [][response' = "applied"
       => \A r \in Requests :
             application_create_save(r)
             => (/\ r.app = <<r.job, r.user>>
                 /\ applications[r.app] = NoRow
                 /\ applications'[r.app] = STATUS_PENDING
                 /\ \A b \in AppIds \ {r.app} : applications'[b] = applications[b]
                 /\ job' = job
                 /\ subs' = subs
                 /\ notified' = <<NewNotification(Employer(r.job))>>)]_vars

\* An apply has just succeeded on an open job on which another freelancer's
\* application is pending.
C13_Witness ==
    \E a, b \in AppIds :
        /\ a # b /\ AppJob(a) = AppJob(b)
        /\ response = "applied"
        /\ notified = <<NewNotification(Employer(AppJob(a)))>>
        /\ job[AppJob(a)] = [status |-> STATUS_OPEN, selected_application |-> NoApp]
        /\ applications[a] = STATUS_PENDING
        /\ applications[b] = STATUS_PENDING

\* C14: reject's save, which only a request of the job's employer reaches,
\* sets that application to rejected and leaves the Job row (status and
\* selected_application), every other Application row and the submissions
\* as they were; the reject that answers has inserted one Notification, for
\* the application's freelancer.
C14_RejectFrame ==
    [][\A r \in Requests :
          reject_save(r)
          => (/\ r.user = Employer(r.job)
              /\ applications'[r.app] = STATUS_REJECTED
              /\ \A b \in AppIds \ {r.app} : applications'[b] = applications[b]
              /\ job' = job
              /\ subs' = subs
              /\ response' = "rejected" => notified' = <<NewNotification(AppFreelancer(r.app))>>
              /\ response' # "rejected" => notified' = <<>>)]_vars

\* A reject has just answered on an open job: the application is rejected,
\* its sibling still pending, nothing selected.
C14_Witness ==
    \E a, b \in AppIds :
        /\ a # b /\ AppJob(a) = AppJob(b)
        /\ response = "rejected"
        /\ notified = <<NewNotification(AppFreelancer(a))>>
        /\ applications[a] = STATUS_REJECTED
        /\ applications[b] = STATUS_PENDING
        /\ job[AppJob(a)] = [status |-> STATUS_OPEN, selected_application |-> NoApp]

\* C15: no state in which another request can be served shows an approve
\* or a request-changes half done: the submission already approved (or
\* changes_requested) by a request whose save of the job is still to come,
\* and the job not yet completed (or in_progress).
C15_ReviewOfWorkAtomic ==
    \A r \in Requests :
        WorkerFree =>
            /\ ~(/\ r.pc = "approve_job"
                 /\ subs[r.sub].status = STATUS_APPROVED
                 /\ job[r.job].status # STATUS_COMPLETED)
            /\ ~(/\ r.pc = "changes_job"
                 /\ subs[r.sub].status = STATUS_CHANGES_REQUESTED
                 /\ job[r.job].status # STATUS_IN_PROGRESS)

\* C16: in every state the program reaches, the checks of accept, reject,
\* mark-completed, approve and request-changes answer anyone but the job's
\* employer with 403 or 404, and the checks of submit answer anyone but
\* the application's freelancer with 403 or 404; every request that
\* stands before a write is the employer's (the freelancer's, for submit);
\* and a handler that returns at its checks has written no row and
\* inserted no notification.
C16_CallerGated ==
    /\ [](/\ \A u \in Users, a \in AppIds, action \in {"accept", "reject"} :
                u # Employer(AppJob(a))
                => application_update_status_checks(u, a, action) \in {"403", "404"}
          /\ \A u \in Users, j \in Jobs :
                u # Employer(j) => job_mark_completed_checks(u, j) \in {"403", "404"}
          /\ \A u \in Users, i \in 1..Len(subs), action \in {"approve", "request_changes"} :
                \A text \in ReasonsFor(action) :
                   u # Employer(SubJob(subs, i))
                   => work_submission_update_status_checks(u, i, action, text)
                         \in {"403", "404"}
          /\ \A u \in Users, a \in AppIds, posted \in BOOLEAN :
                u # AppFreelancer(a)
                => work_submission_create_checks(u, a, posted)
                      \in {"403", "404", "not_own_application"}
          /\ \A r \in Requests :
                /\ r.pc \in {"accept_tx", "reject_save", "complete_save",
                             "approve_submission", "approve_job",
                             "changes_submission", "changes_job"}
                      => r.user = Employer(r.job)
                /\ r.pc = "submit_tx" => r.user = AppFreelancer(r.app))
    /\ [][RefusedWithoutEffect]_vars

\* A freelancer has just been refused a submit on the accepted application
\* of another freelancer.
C16_Witness ==
    \E a \in AppIds :
        /\ response = "not_own_application"
        /\ applications[a] = STATUS_ACCEPTED
        /\ subs = <<>>
        /\ inflight = EmptyBag

\* The count and the mean of the ratings of the reviews u has received, the
\* mean in hundredths and rounded half-up; both 0 without reviews.
RoundedMean(revs, u) ==
    IF ReviewsReceived(revs, u) = {} THEN NoRatings
    ELSE [rating_avg |-> RoundHalfUp(100 * SumRatings(revs, ReviewsReceived(revs, u)),
                                     Cardinality(ReviewsReceived(revs, u))),
          rating_count |-> Cardinality(ReviewsReceived(revs, u))]

\* No Review.save is between its insert and its save of the user.
NoReviewBeingSaved ==
    \A r \in Requests : r.pc \notin {"review_aggregate", "review_user_save"}

\* C17: whenever no review is in the middle of being saved, every user's
\* rating_count is the number of Review rows naming the user as reviewee
\* and rating_avg is the mean of their ratings rounded half-up to two
\* places (both 0 without reviews).
C17_RatingsMatchReviews ==
    NoReviewBeingSaved => \A u \in Users : users[u] = RoundedMean(reviews, u)

\* C18: a review of a job that is not completed, whoever calls and whatever
\* the target, is answered with the "after a job is completed" error and
\* writes nothing: no Review row, no rating column, no Notification; and a
\* Review row is inserted only while its job is completed.
C18_ReviewNeedsCompleted ==
    [][/\ \A u \in Users, j \in Jobs, target \in ReviewTargets, rating \in RatingInputs :
             (job[j].status # STATUS_COMPLETED /\ review_create(u, j, target, rating))
             => (response' = "not_completed" /\ NoEffect)
       /\ \A r \in Requests :
             (r.pc = "review_insert" /\ review_save_insert(r))
             => job[r.job].status = STATUS_COMPLETED]_vars

\* A review has just been refused on an assigned job that has a selected
\* application.
C18_Witness ==
    \E j \in Jobs :
        /\ response = "not_completed"
        /\ job[j].status = STATUS_ASSIGNED
        /\ job[j].selected_application # NoApp
        /\ reviews = NoReviews
        /\ inflight = EmptyBag

\* The caller and target review_create lets through on a completed job.
MayReview(u, j, target) ==
    /\ job[j].selected_application # NoApp
    /\ \/ target = "freelancer" /\ u = Employer(j)
       \/ target = "employer" /\ u = AppFreelancer(job[j].selected_application)

\* C19: a Review row is inserted only from the job's employer to the
\* freelancer of the job's selected application or from that freelancer to
\* the employer, as the job stands at the insert; on a completed job the
\* employer's review of a freelancer when none is selected gets the "no
\* freelancer selected" error, and any other caller and target is refused
\* (403); neither writes anything.
C19_ReviewParticipants ==
    [][/\ \A r \in Requests :
             (r.pc = "review_insert" /\ review_save_insert(r) /\ reviews' # reviews)
             => /\ job[r.job].selected_application # NoApp
                /\ r.review \in
                      {<<r.job, Employer(r.job),
                         AppFreelancer(job[r.job].selected_application)>>,
                       <<r.job, AppFreelancer(job[r.job].selected_application),
                         Employer(r.job)>>}
       /\ \A u \in Users, j \in Jobs, target \in {"freelancer", "employer"},
             rating \in RatingInputs :
             (/\ job[j].status = STATUS_COMPLETED
              /\ ~MayReview(u, j, target)
              /\ review_create(u, j, target, rating))
             => (/\ NoEffect
                 /\ IF u = Employer(j) /\ target = "freelancer"
                    THEN response' = "no_freelancer"
                    ELSE response' \in ForbiddenResponses)]_vars

\* The employer's review of the selected freelancer has just been saved: it
\* is the freelancer's only review.
C19_Witness ==
    \E j \in Jobs, f \in Freelancers :
        /\ response = "reviewed"
        /\ notified = <<NewNotification(f)>>
        /\ job[j].selected_application = <<j, f>>
        /\ <<j, Employer(j), f>> \in DOMAIN reviews
        /\ users[f].rating_count = 1
        /\ users[Employer(j)].rating_count = 0

\* C20: a review by a caller the handler lets through, for a (job, reviewer,
\* reviewee) triple that already has a Review row, is answered with the
\* "already submitted a review" information and writes nothing: no row, no
\* change of the existing rating or of any rating column, no Notification.
\* (The rows are keyed by the triple: unique_review_per_job_participants
\* lets no second row in.)
C20_SecondReviewNoOp ==
    [][\A u \in Users, j \in Jobs, target \in {"freelancer", "employer"},
          rating \in RatingInputs :
          (/\ job[j].status = STATUS_COMPLETED
           /\ MayReview(u, j, target)
           /\ ReviewTriple(u, j, target) \in DOMAIN reviews
           /\ review_create(u, j, target, rating))
          => (response' = "already_reviewed" /\ NoEffect)]_vars

\* A second review has just been turned away on a completed job on which
\* employer and freelancer have each reviewed the other once.
C20_Witness ==
    \E j \in Jobs, f \in Freelancers :
        /\ response = "already_reviewed"
        /\ job[j] = [status |-> STATUS_COMPLETED, selected_application |-> <<j, f>>]
        /\ <<j, Employer(j), f>> \in DOMAIN reviews
        /\ <<j, f, Employer(j)>> \in DOMAIN reviews
        /\ users[f].rating_count = 1
        /\ users[Employer(j)].rating_count = 1
        /\ inflight = EmptyBag

\* A Notification row of user u that has not been read.
Unread(u) == [user |-> u, is_read |-> FALSE]

\* C21: an apply, accept, reject, submit, approve or request-changes that
\* answers with its success outcome has inserted exactly one Notification
\* row, unread, for the counterparty: the job's employer for apply and
\* submit, the application's freelancer for accept and reject, the
\* submission's freelancer for approve and request-changes; no step
\* inserts more than one row.
C21_OneNotificationToCounterparty ==
    [][/\ response' = "applied"
             => \A r \in Requests :
                   application_create_save(r) => notified' = <<Unread(Employer(r.job))>>
       /\ response' = "accepted"
             => \A r \in Requests :
                   accept_transaction(r) => notified' = <<Unread(AppFreelancer(r.app))>>
       /\ response' = "rejected"
             => \A r \in Requests :
                   reject_save(r) => notified' = <<Unread(AppFreelancer(r.app))>>
       /\ response' = "submitted"
             => \A r \in Requests :
                   work_submission_create_transaction(r)
                   => notified' = <<Unread(Employer(r.job))>>
       /\ response' = "approved"
             => \A r \in Requests :
                   approve_save_job(r) => notified' = <<Unread(SubmittedBy(subs, r.sub))>>
       /\ response' = "changes_requested"
             => \A r \in Requests :
                   request_changes_save_job(r)
                   => notified' = <<Unread(SubmittedBy(subs, r.sub))>>
       /\ Len(notified') <= 1]_vars

\* Changes have just been requested of a freelancer's submission: the one
\* row inserted is the freelancer's, unread.
C21_Witness ==
    \E i \in 1..Len(subs) :
        /\ response = "changes_requested"
        /\ subs[i].status = STATUS_CHANGES_REQUESTED
        /\ notified = <<Unread(SubmittedBy(subs, i))>>
        /\ inflight = EmptyBag

\* C22: when the Notification insert of accept, submit, approve or
\* request-changes raises (the request ends in a server error), the rows the
\* operation wrote stand: the application accepted and selected on the
\* assigned job; the new submission there and the job submitted; the
\* submission approved and the job completed; the submission
\* changes_requested with its reason and the job in_progress.
C22_CommittedDespiteNotification ==
    [][response' = "500"
       => \A r \in Requests :
             /\ accept_transaction(r)
                   => /\ applications'[r.app] = STATUS_ACCEPTED
                      /\ job'[r.job] = [status |-> STATUS_ASSIGNED,
                                        selected_application |-> r.app]
             /\ work_submission_create_transaction(r)
                   => /\ Len(subs') = Len(subs) + 1
                      /\ subs'[Len(subs')].application = r.app
                      /\ subs'[Len(subs')].status
                            \in {STATUS_SUBMITTED, STATUS_RESUBMITTED}
                      /\ job'[r.job].status = STATUS_SUBMITTED
             /\ approve_save_job(r)
                   => /\ subs'[r.sub].status = STATUS_APPROVED
                      /\ job'[r.job].status = STATUS_COMPLETED
             /\ request_changes_save_job(r)
                   => /\ subs'[r.sub].status = STATUS_CHANGES_REQUESTED
                      /\ subs'[r.sub].change_request_reason = r.reason
                      /\ job'[r.job].status = STATUS_IN_PROGRESS]_vars

\* A submit has just ended in a server error with no Notification
\* inserted: its submission is in the table and the job is submitted.
C22_Witness ==
    /\ response = "500"
    /\ notified = <<>>
    /\ Len(subs) = 1
    /\ subs[1].status = STATUS_SUBMITTED
    /\ job[SubJob(subs, 1)].status = STATUS_SUBMITTED
    /\ inflight = EmptyBag

\* C23: the last step of apply, accept, reject, submit, approve,
\* request-changes and mark-completed answers with the operation's success
\* outcome whether or not its Notification insert raises.
C23_NotificationFailureSwallowed ==
    [][\A r \in Requests :
          /\ application_create_save(r) => response' = "applied"
          /\ accept_transaction(r) => response' = "accepted"
          /\ reject_save(r) => response' = "rejected"
          /\ work_submission_create_transaction(r) => response' = "submitted"
          /\ approve_save_job(r) => response' = "approved"
          /\ request_changes_save_job(r) => response' = "changes_requested"
          /\ job_mark_completed_save(r) => response' = "completed"]_vars

\* C24: a notify_users call in which create_notification raises for one
\* user still notifies the users after that one: the call that ends in the
\* error leaves no present user of its list without a row.
C24_NotifyManyIndependent ==
    [][\A r \in Requests :
          (notify_users_create(r) /\ response' = "500")
          => Present(Tail(r.recipients)) = <<>>]_vars

\* C25: the submit transaction appends one WorkSubmission and leaves the
\* others as they were; the new row's status is resubmitted if a submission
\* of the same application has status changes_requested when the
\* transaction runs, and submitted otherwise.
C25_ResubmittedIffChangesRequested ==
    [][\A r \in Requests :
          work_submission_create_transaction(r)
          => (/\ Len(subs') = Len(subs) + 1
              /\ \A i \in 1..Len(subs) : subs'[i] = subs[i]
              /\ subs'[Len(subs')].application = r.app
              /\ subs'[Len(subs')].status =
                    IF \E i \in 1..Len(subs) :
                          /\ subs[i].application = r.app
                          /\ subs[i].status = STATUS_CHANGES_REQUESTED
                    THEN STATUS_RESUBMITTED
                    ELSE STATUS_SUBMITTED)]_vars

\* A freelancer whose first submission has changes requested has just
\* submitted again: the new submission is resubmitted.
C25_Witness ==
    /\ response = "submitted"
    /\ Len(subs) = 2
    /\ subs[1].application = subs[2].application
    /\ subs[1].status = STATUS_CHANGES_REQUESTED
    /\ subs[2].status = STATUS_RESUBMITTED

\* C26: an approve that answers with success was the employer's and leaves
\* the submission approved with no change_request_reason and the job
\* completed; and in every state an approved submission has no
\* change_request_reason and a changes_requested one has a non-empty one.
C26_ApproveClearsReason ==
    /\ [](\A i \in 1..Len(subs) :
            /\ subs[i].status = STATUS_APPROVED => subs[i].change_request_reason = None
            /\ subs[i].status = STATUS_CHANGES_REQUESTED
                  => subs[i].change_request_reason # <<>>)
    /\ [][response' = "approved"
          => \A r \in Requests :
                approve_save_job(r)
                => (/\ r.user = Employer(r.job)
                    /\ subs'[r.sub].status = STATUS_APPROVED
                    /\ subs'[r.sub].change_request_reason = None
                    /\ job'[r.job].status = STATUS_COMPLETED)]_vars

\* A submission has just been approved beside an earlier one that has
\* changes requested and its reason.
C26_Witness ==
    /\ response = "approved"
    /\ Len(subs) = 2
    /\ subs[1].status = STATUS_CHANGES_REQUESTED
    /\ subs[1].change_request_reason # None
    /\ subs[2].status = STATUS_APPROVED
    /\ subs[2].change_request_reason = None
    /\ job[SubJob(subs, 2)].status = STATUS_COMPLETED

\* A text with nothing but spaces in it.
Blank(text) == \A k \in 1..Len(text) : text[k] = " "

\* C27: in every state the employer's request-changes on one of the job's
\* submissions with an empty or blank reason gets the "provide a reason"
\* error from the handler's checks, and the step that answers with that
\* error writes no row (submission and job stay as they are) and inserts no
\* notification.
C27_EmptyReasonRefused ==
    /\ [](\A i \in 1..Len(subs), text \in Reasons :
            Blank(text)
            => work_submission_update_status_checks(
                   Employer(SubJob(subs, i)), i, "request_changes", text)
               = "reason_required")
    /\ [][response' = "reason_required" => NoEffect]_vars

\* The employer has just been refused a request-changes without a reason
\* on a submitted job.
C27_Witness ==
    /\ response = "reason_required"
    /\ Len(subs) = 1
    /\ subs[1].status = STATUS_SUBMITTED
    /\ subs[1].change_request_reason = None
    /\ job[SubJob(subs, 1)].status = STATUS_SUBMITTED
    /\ inflight = EmptyBag

\* C28: the steps of the delivery cycle, requests served one at a time.
\* The submit on an assigned job whose application has no submission with
\* changes requested inserts a submitted submission and leaves the job
\* submitted; the request-changes that answers leaves that submission
\* changes_requested with the (non-empty) reason stored and the job
\* in_progress; the submit that follows on the in_progress job inserts a
\* resubmitted submission and leaves the job submitted; the approve that
\* answers leaves the submission approved without reason and the job
\* completed.
C28_DeliveryCycle ==
    [][\A r \in Requests :
          /\ (/\ work_submission_create_transaction(r)
              /\ job[r.job].status = STATUS_ASSIGNED
              /\ \A i \in 1..Len(subs) : subs[i].application # r.app)
                => /\ subs' = Append(subs, [application |-> r.app,
                                            status |-> STATUS_SUBMITTED,
                                            change_request_reason |-> None])
                   /\ job'[r.job].status = STATUS_SUBMITTED
          /\ (request_changes_save_job(r) /\ response' = "changes_requested")
                => /\ subs'[r.sub].status = STATUS_CHANGES_REQUESTED
                   /\ subs'[r.sub].change_request_reason = r.reason
                   /\ r.reason # None
                   /\ job'[r.job].status = STATUS_IN_PROGRESS
          /\ (/\ work_submission_create_transaction(r)
              /\ job[r.job].status = STATUS_IN_PROGRESS
              /\ Len(subs) > 0
              /\ subs[Len(subs)].application = r.app
              /\ subs[Len(subs)].status = STATUS_CHANGES_REQUESTED)
                => /\ subs' = Append(subs, [application |-> r.app,
                                            status |-> STATUS_RESUBMITTED,
                                            change_request_reason |-> None])
                   /\ job'[r.job].status = STATUS_SUBMITTED
          /\ (/\ approve_save_job(r)
              /\ response' = "approved"
              /\ job[r.job].status = STATUS_SUBMITTED)
                => /\ subs'[r.sub].status = STATUS_APPROVED
                   /\ subs'[r.sub].change_request_reason = None
                   /\ job'[r.job].status = STATUS_COMPLETED]_vars

\* The end of the cycle: the accepted application's first submission has
\* changes requested with the reason "f", its second has just been
\* approved, and the job is completed.
C28_Witness ==
    \E a \in AppIds :
        /\ response = "approved"
        /\ applications[a] = STATUS_ACCEPTED
        /\ job[AppJob(a)] = [status |-> STATUS_COMPLETED, selected_application |-> a]
        /\ subs = <<[application |-> a, status |-> STATUS_CHANGES_REQUESTED,
                     change_request_reason |-> <<"f">>],
                    [application |-> a, status |-> STATUS_APPROVED,
                     change_request_reason |-> None]>>

\* C29: in every state the employer's mark-completed passes the handler's
\* checks, whatever the job's status and whether or not it has a selected
\* application or a submission; its save sets the job's status to completed
\* and changes nothing else of the job, no Application and no
\* WorkSubmission; when it answers with success it has inserted one
\* Notification, for the selected application's freelancer, if the job has
\* a selected application, and none otherwise.
C29_MarkCompleted ==
    /\ [](\A j \in Jobs : job_mark_completed_checks(Employer(j), j) = "proceed")
    /\ [][\A r \in Requests :
             job_mark_completed_save(r)
             => (/\ job'[r.job] = [job[r.job] EXCEPT !.status = STATUS_COMPLETED]
                 /\ applications' = applications
                 /\ subs' = subs
                 /\ response' = "completed"
                       => notified' =
                             IF Selected(r.job) # NoApp
                             THEN <<Unread(AppFreelancer(Selected(r.job)))>>
                             ELSE <<>>
                 /\ response' # "completed" => notified' = <<>>)]_vars

\* An open job without applications has just been marked completed: no
\* notification was inserted.
C29_Witness ==
    \E j \in Jobs :
        /\ response = "completed"
        /\ notified = <<>>
        /\ job[j] = [status |-> STATUS_COMPLETED, selected_application |-> NoApp]
        /\ JobApps(applications, j) = {}
        /\ subs = <<>>

\* C30: in every state a mark-read of a notification by a user who does not
\* own it gets 404 from the handler's checks.  In every step: no
\* Notification row goes away or changes its user; a row that comes into
\* the table is unread; a row that is read stays read; a row's is_read
\* changes only in the save of a mark-read of that row, or in the update of
\* a mark-all-read, by a request of the row's user; the save of a mark-read
\* changes no other row; and a handler that returns at its checks changes
\* nothing.
C30_ReadOnlyByOwner ==
    /\ [](\A u \in Users, pk \in 1..Len(notifications) :
            notifications[pk].user # u => notification_mark_read_checks(u, pk) = "404")
    /\ [][/\ Len(notifications') >= Len(notifications)
          /\ \A pk \in 1..Len(notifications) :
                /\ notifications'[pk].user = notifications[pk].user
                /\ notifications[pk].is_read => notifications'[pk].is_read
                /\ notifications'[pk].is_read # notifications[pk].is_read
                      => \E r \in Requests :
                            /\ r.user = notifications[pk].user
                            /\ \/ r.notification = pk /\ notification_mark_read_save(r)
                               \/ notification_list_update(r)
          /\ \A pk \in (Len(notifications) + 1)..Len(notifications') :
                ~notifications'[pk].is_read
          /\ \A r \in Requests :
                notification_mark_read_save(r)
                => \A pk \in 1..Len(notifications) :
                      pk # r.notification => notifications'[pk] = notifications[pk]
          /\ RefusedWithoutEffect]_vars

\* A user has just been refused a mark-read of another user's unread
\* notification, beside a notification its owner has read.
C30_Witness ==
    \E pk, qk \in 1..Len(notifications) :
        /\ response = "404"
        /\ ~notifications[pk].is_read
        /\ notifications[qk].is_read
        /\ notifications[pk].user # notifications[qk].user
        /\ inflight = EmptyBag

\* C31: once Review.save has run, whatever the ratings received,
\* rating_count is the number of reviews received and rating_avg, in
\* hundredths, is their mean times 100 rounded half-up to an integer (a
\* mean of 4.125 gives 413); both are 0 when no review was received.
C31_RatingIsRoundedMean ==
    inflight = EmptyBag => \A u \in Users : users[u] = RoundedMean(reviews, u)

\* C32: in every state, with requests interleaved too, every Application
\* whose status is accepted is the selected_application of its job.
C32_AcceptedIsSelected ==
    \A a \in AppIds :
        applications[a] = STATUS_ACCEPTED => job[AppJob(a)].selected_application = a

Reviewer(k) == k[2]

\* C34: in every state no Application has as freelancer the employer of
\* its job, whatever permissions that employer holds, and no Review has
\* its reviewer as reviewee.
C34_NoSelfReview ==
    /\ \A a \in AppIds :
           applications[a] # NoRow => AppFreelancer(a) # Employer(AppJob(a))
    /\ \A k \in ReviewRows(reviews) : Reviewer(k) # Reviewee(k)

\* The employer, who holds add_application, has been refused an application
\* to the job, on which a review has been written.
C34_Witness ==
    /\ response = "own_job"
    /\ HasPerm("e1", "add_application")
    /\ ReviewRows(reviews) # {}

\* C35: with job deletion among the operations, whenever no request is
\* being served every user's rating_count is the number of Review rows
\* that now name the user as reviewee and rating_avg their rounded mean: no
\* rating counts a review that the deletion of its job has removed.
C35_RatingsFollowJobDeletion ==
    inflight = EmptyBag =>
        \A u \in Users :
            /\ users[u].rating_count = Cardinality(ReviewsReceived(reviews, u))
            /\ users[u].rating_avg = RoundedMean(reviews, u).rating_avg

====
